---- MODULE Spec2Model ----
(***************************************************************************)
(* Clock prescaler reconfiguration of the ATmega2560P HAL                  *)
(* (src/src/atmega2560p/hal/prescalar.rs, Prescalar::enable_clock).        *)
(*                                                                         *)
(* The main program is one sequential thread that calls enable_clock; the  *)
(* call is modelled one source statement per step, so that asynchronous    *)
(* interrupt delivery can interleave with it exactly where the hardware    *)
(* allows it.  The registers are plain byte cells (volatile accesses, one  *)
(* bus transaction per statement, in program order).                       *)
(***************************************************************************)
EXTENDS Integers, Sequences, FiniteSets, TLC

(* ---------------- bounds ---------------- *)
MaxCalls == 2          \* enable_clock calls per behaviour
MaxIrqs  == 1          \* interrupt requests raised per behaviour

(* ---------------- inputs ---------------- *)
Byte == 0..255
LegalDivisors == {1, 2, 4, 8, 16, 32, 64, 128, 256}
\* u32 arguments outside the table of lines 75-83
IllegalSamples == {0, 3, 257}
Freqs == LegalDivisors \cup IllegalSamples
\* contents of the prescaler register before the first call: every
\* combination of a clear/set CLKPCE, clear/set reserved bits and a
\* zero/legal/reserved select field
InitRegs == {0, 3, 8, 15, 112, 128, 131, 255}
\* contents of the calibration register at power-on
OscVals == {0, 165}

(* ---------------- bit fields of CLKPR (lines 26-29) ---------------- *)
CLKPCE(v)   == v \div 128            \* bit 7
Reserved(v) == (v \div 16) % 8       \* bits 6:4
CLKPS(v)    == v % 16                \* bits 3:0

\* the change-enable word written at line 72
ChangeEnable == 128

\* the if/else-if chain of lines 75-84: the word written for freq, or
\* NoCode when control reaches the final else (unreachable!())
NoCode == -1
\* the chain with the divisor 16 written back as the register word
SelectCode_hex16(f) ==
  CASE f = 1   -> 0
    [] f = 2   -> 1
    [] f = 4   -> 2
    [] f = 8   -> 3
    [] f = 16  -> 16
    [] f = 32  -> 5
    [] f = 64  -> 6
    [] f = 128 -> 7
    [] f = 256 -> 8
    [] OTHER   -> NoCode

\* the chain with the branch of the largest divisor missing
SelectCode_no256(f) ==
  CASE f = 1   -> 0
    [] f = 2   -> 1
    [] f = 4   -> 2
    [] f = 8   -> 3
    [] f = 16  -> 4
    [] f = 32  -> 5
    [] f = 64  -> 6
    [] f = 128 -> 7
    [] OTHER   -> NoCode

\* the chain with the constants of two adjacent branches confused
SelectCode_shifted(f) ==
  CASE f = 1   -> 0
    [] f = 2   -> 1
    [] f = 4   -> 2
    [] f = 8   -> 4
    [] f = 16  -> 4
    [] f = 32  -> 5
    [] f = 64  -> 6
    [] f = 128 -> 7
    [] f = 256 -> 8
    [] OTHER   -> NoCode

SelectCode(f) ==
  CASE f = 1   -> 0
    [] f = 2   -> 1
    [] f = 4   -> 2
    [] f = 8   -> 3
    [] f = 16  -> 4
    [] f = 32  -> 5
    [] f = 64  -> 6
    [] f = 128 -> 7
    [] f = 256 -> 8
    [] OTHER   -> NoCode

\* number of `freq == k` tests the chain of lines 75-84 evaluates for f
Comparisons(f) == IF SelectCode(f) = NoCode THEN 9 ELSE SelectCode(f) + 1

\* line 62: the select write has to follow the change-enable write
\* "within four cycles"
WindowCycles == 4
\* line 73: "wait for a clock cycle"
NopCycles == 1
\* cycles one `freq == k` test of lines 75-83 spends between the two
\* writes: none when the build decodes the divisor ahead of line 72, at
\* least one when the tests are executed where they are written
CmpCycles == {0, 1}

\* the hardware after a select write issued e cycles after the
\* change-enable write: the change is taken inside the window and
\* discarded after it
HwAfterCommit(h, e) ==
  IF h = "ChangePending"
  THEN (IF e <= WindowCycles THEN "Applied" ELSE "Discarded")
  ELSE h

\* interrupt::Status::disable / enable: clear / set the global
\* interrupt-enable flag
disable(i) == FALSE
enable(i)  == TRUE

VARIABLES
  CLKPR,        \* the prescaler register (Prescalar.CLKPR)
  OSCCAL,       \* the calibration register (Prescalar.OSCCAL)
  SREG_I,       \* global interrupt-enable flag
  pc,           \* position of the main program
  freq,         \* argument of the call in progress
  clkpr,        \* local of line 71
  guardHeld,    \* itr.disable() executed and itr.enable() not yet
  result,       \* what the last call returned to its caller
  calls,        \* arguments of the calls started so far
  writes,       \* volatile writes issued so far, in bus order
  reads,        \* number of volatile reads issued so far
  pre,          \* registers, flag and trace lengths at entry of the last call
  irqPending,   \* an interrupt request is waiting for delivery
  irqTag,       \* where the pending request was raised
  nIrqs,        \* requests raised so far
  handled,      \* what the last interrupt handler run observed
  order,        \* steps executed by the last call, in program order
  elapsed,      \* cycles spent since the change-enable write of the call
  hw            \* protected-write state of the prescaler hardware; it observes
                \* the timing only, the byte cell CLKPR keeps what was written

vars == <<CLKPR, OSCCAL, SREG_I, pc, freq, clkpr, guardHeld, result, calls, writes,
          reads, pre, irqPending, irqTag, nIrqs, handled, order, elapsed, hw>>

\* positions between the write of line 72 and the write of lines 75-83
Window == {"nop", "select"}

NoTag == [win |-> FALSE, want |-> NoCode]
NoRun == [ran |-> FALSE, win |-> FALSE, want |-> NoCode, saw |-> 0, at |-> "idle"]

Init ==
  /\ CLKPR \in InitRegs
  /\ OSCCAL \in OscVals
  /\ SREG_I \in BOOLEAN
  /\ pc = "idle"
  /\ freq = 0
  /\ clkpr = 0
  /\ guardHeld = FALSE
  /\ result = "none"
  /\ calls = <<>>
  /\ writes = <<>>
  /\ reads = 0
  /\ pre = [CLKPR |-> CLKPR, I |-> SREG_I, writes |-> 0, reads |-> 0]
  /\ irqPending = FALSE
  /\ irqTag = NoTag
  /\ nIrqs = 0
  /\ handled = NoRun
  /\ order = <<>>
  /\ elapsed = 0
  /\ hw = "Idle"

(* ---------------- interrupt hardware ---------------- *)
\* A pending request is served before the next instruction of the main
\* program whenever the global flag is set.
MainRuns == ~(SREG_I /\ irqPending)

RaiseIrq ==
  /\ nIrqs < MaxIrqs
  /\ ~irqPending
  /\ irqPending' = TRUE
  /\ nIrqs' = nIrqs + 1
  /\ irqTag' = [win  |-> (pc \in Window /\ freq \in LegalDivisors /\ pre.I),
                want |-> IF pc \in Window THEN SelectCode(freq) ELSE NoCode]
  /\ UNCHANGED <<CLKPR, OSCCAL, SREG_I, pc, freq, clkpr, guardHeld, result, calls,
                 writes, reads, pre, handled,
                 order, elapsed, hw>>

DeliverIrq ==
  /\ SREG_I
  /\ irqPending
  /\ irqPending' = FALSE
  /\ irqTag' = NoTag
  /\ handled' = [ran |-> TRUE, win |-> irqTag.win, want |-> irqTag.want,
                 saw |-> CLKPR, at |-> pc]
  /\ UNCHANGED <<CLKPR, OSCCAL, SREG_I, pc, freq, clkpr, guardHeld, result, calls,
                 writes, reads, pre, nIrqs,
                 order, elapsed, hw>>

(* ---------------- enable_clock, statement by statement ---------------- *)
\* lines 66-68: entry and construction of the interrupt control object
Call(f) ==
  /\ pc = "idle"
  /\ MainRuns
  /\ Len(calls) < MaxCalls
  /\ pc' = "disable"
  /\ freq' = f
  /\ calls' = Append(calls, f)
  /\ result' = "none"
  /\ pre' = [CLKPR |-> CLKPR, I |-> SREG_I, writes |-> Len(writes), reads |-> reads]
  /\ order' = <<>>
  /\ elapsed' = 0
  /\ hw' = "Idle"
  /\ UNCHANGED <<CLKPR, OSCCAL, SREG_I, clkpr, guardHeld, writes, reads,
                 irqPending, irqTag, nIrqs, handled>>

\* line 69 left out: the call goes on with the flag as it found it
ItrDisable_omitted ==
  /\ pc = "disable"
  /\ MainRuns
  /\ guardHeld' = TRUE
  /\ pc' = "read"
  /\ UNCHANGED <<CLKPR, OSCCAL, SREG_I, freq, clkpr, result, calls, writes,
                 reads, pre, irqPending, irqTag, nIrqs, handled,
                 order, elapsed, hw>>

\* line 69
ItrDisable ==
  /\ pc = "disable"
  /\ MainRuns
  /\ SREG_I' = disable(SREG_I)
  /\ guardHeld' = TRUE
  /\ pc' = "read"
  /\ order' = Append(order, "disable")
  /\ UNCHANGED <<CLKPR, OSCCAL, freq, clkpr, result, calls, writes, reads, pre,
                 irqPending, irqTag, nIrqs, handled,
                 elapsed, hw>>

\* line 71
ReadClkpr ==
  /\ pc = "read"
  /\ MainRuns
  /\ clkpr' = CLKPR
  /\ reads' = reads + 1
  /\ pc' = "write80"
  /\ order' = Append(order, "read")
  /\ UNCHANGED <<CLKPR, OSCCAL, SREG_I, freq, guardHeld, result, calls, writes, pre,
                 irqPending, irqTag, nIrqs, handled,
                 elapsed, hw>>

\* line 72 addressing the other field of the structure
WriteChangeEnable_osccal ==
  /\ pc = "write80"
  /\ MainRuns
  /\ OSCCAL' = ChangeEnable
  /\ writes' = Append(writes, [reg |-> "OSCCAL", val |-> ChangeEnable])
  /\ pc' = "nop"
  /\ order' = Append(order, "write80")
  /\ elapsed' = 0
  /\ UNCHANGED <<CLKPR, SREG_I, freq, clkpr, guardHeld, result, calls, reads, pre,
                 irqPending, irqTag, nIrqs, handled, hw>>

\* line 72 left out: no change-enable write precedes the select write
WriteChangeEnable_skipped ==
  /\ pc = "write80"
  /\ MainRuns
  /\ pc' = "nop"
  /\ UNCHANGED <<CLKPR, OSCCAL, SREG_I, freq, clkpr, guardHeld, result, calls,
                 writes, reads, pre, irqPending, irqTag, nIrqs, handled,
                 order, elapsed, hw>>

\* line 72
WriteChangeEnable ==
  /\ pc = "write80"
  /\ MainRuns
  /\ CLKPR' = ChangeEnable
  /\ writes' = Append(writes, [reg |-> "CLKPR", val |-> ChangeEnable])
  /\ pc' = "nop"
  /\ order' = Append(order, "write80")
  /\ elapsed' = 0
  /\ hw' = "ChangePending"
  /\ UNCHANGED <<OSCCAL, SREG_I, freq, clkpr, guardHeld, result, calls, reads, pre,
                 irqPending, irqTag, nIrqs, handled>>

\* line 73
Nop ==
  /\ pc = "nop"
  /\ MainRuns
  /\ pc' = "select"
  /\ order' = Append(order, "nop")
  /\ elapsed' = elapsed + NopCycles
  /\ UNCHANGED <<CLKPR, OSCCAL, SREG_I, freq, clkpr, guardHeld, result, calls, writes,
                 reads, pre, irqPending, irqTag, nIrqs, handled,
                 hw>>

\* lines 75-83 merging the select code into the word read at line 71
WriteSelect_merged ==
  /\ pc = "select"
  /\ MainRuns
  /\ SelectCode(freq) # NoCode
  /\ CLKPR' = Reserved(clkpr) * 16 + SelectCode(freq)
  /\ writes' = Append(writes, [reg |-> "CLKPR",
                                val |-> Reserved(clkpr) * 16 + SelectCode(freq)])
  /\ pc' = "enable"
  /\ order' = order \o <<"validate", "select">>
  /\ \E c \in CmpCycles : elapsed' = elapsed + c * Comparisons(freq)
  /\ hw' = HwAfterCommit(hw, elapsed')
  /\ UNCHANGED <<OSCCAL, SREG_I, freq, clkpr, guardHeld, result, calls, reads, pre,
                 irqPending, irqTag, nIrqs, handled>>

\* lines 75-83: the branch taken by a divisor of the table
WriteSelect ==
  /\ pc = "select"
  /\ MainRuns
  /\ SelectCode(freq) # NoCode
  /\ CLKPR' = SelectCode(freq)
  /\ writes' = Append(writes, [reg |-> "CLKPR", val |-> SelectCode(freq)])
  /\ pc' = "enable"
  /\ order' = order \o <<"validate", "select">>
  /\ \E c \in CmpCycles : elapsed' = elapsed + c * Comparisons(freq)
  /\ hw' = HwAfterCommit(hw, elapsed')
  /\ UNCHANGED <<OSCCAL, SREG_I, freq, clkpr, guardHeld, result, calls, reads, pre,
                 irqPending, irqTag, nIrqs, handled>>

\* line 84 as an empty else branch: control falls through to line 86
Panic_fallthrough ==
  /\ pc = "select"
  /\ MainRuns
  /\ SelectCode(freq) = NoCode
  /\ pc' = "enable"
  /\ order' = Append(order, "validate")
  /\ \E c \in CmpCycles : elapsed' = elapsed + c * Comparisons(freq)
  /\ UNCHANGED <<CLKPR, OSCCAL, SREG_I, freq, clkpr, guardHeld, result, calls, writes,
                 reads, pre, irqPending, irqTag, nIrqs, handled,
                 hw>>

\* line 84: unreachable!() panics; the panic handler never returns
Panic ==
  /\ pc = "select"
  /\ MainRuns
  /\ SelectCode(freq) = NoCode
  /\ pc' = "panicked"
  /\ order' = Append(order, "validate")
  /\ \E c \in CmpCycles : elapsed' = elapsed + c * Comparisons(freq)
  /\ UNCHANGED <<CLKPR, OSCCAL, SREG_I, freq, clkpr, guardHeld, result, calls, writes,
                 reads, pre, irqPending, irqTag, nIrqs, handled,
                 hw>>

\* line 86 as a restore of the flag found at entry
ItrEnable_restore ==
  /\ pc = "enable"
  /\ MainRuns
  /\ SREG_I' = pre.I
  /\ guardHeld' = FALSE
  /\ clkpr' = 0
  /\ result' = "unit"
  /\ pc' = "idle"
  /\ order' = order \o <<"enable", "return">>
  /\ elapsed' = 0
  /\ UNCHANGED <<CLKPR, OSCCAL, freq, calls, writes, reads, pre,
                 irqPending, irqTag, nIrqs, handled,
                 hw>>

\* line 86 left out: the call returns with the flag still cleared
ItrEnable_omitted ==
  /\ pc = "enable"
  /\ MainRuns
  /\ guardHeld' = FALSE
  /\ clkpr' = 0
  /\ result' = "unit"
  /\ pc' = "idle"
  /\ order' = order \o <<"enable", "return">>
  /\ elapsed' = 0
  /\ UNCHANGED <<CLKPR, OSCCAL, SREG_I, freq, calls, writes, reads, pre,
                 irqPending, irqTag, nIrqs, handled,
                 hw>>

\* lines 86-88: re-enable and return ()
ItrEnable ==
  /\ pc = "enable"
  /\ MainRuns
  /\ SREG_I' = enable(SREG_I)
  /\ guardHeld' = FALSE
  /\ clkpr' = 0
  /\ result' = "unit"
  /\ pc' = "idle"
  /\ order' = order \o <<"enable", "return">>
  /\ elapsed' = 0
  /\ UNCHANGED <<CLKPR, OSCCAL, freq, calls, writes, reads, pre,
                 irqPending, irqTag, nIrqs, handled,
                 hw>>

\* one statement of a call in progress
Step ==
  \/ ItrDisable
  \/ ReadClkpr
  \/ WriteChangeEnable
  \/ Nop
  \/ WriteSelect
  \/ Panic
  \/ ItrEnable

Next ==
  \/ \E f \in Freqs : Call(f)
  \/ Step
  \/ RaiseIrq
  \/ DeliverIrq

Spec == Init /\ [][Next]_vars

\* the main program alone, from every content of the prescaler register
InitAllRegs ==
  /\ CLKPR \in Byte
  /\ OSCCAL \in OscVals
  /\ SREG_I \in BOOLEAN
  /\ pc = "idle"
  /\ freq = 0
  /\ clkpr = 0
  /\ guardHeld = FALSE
  /\ result = "none"
  /\ calls = <<>>
  /\ writes = <<>>
  /\ reads = 0
  /\ pre = [CLKPR |-> CLKPR, I |-> SREG_I, writes |-> 0, reads |-> 0]
  /\ irqPending = FALSE
  /\ irqTag = NoTag
  /\ nIrqs = 0
  /\ handled = NoRun
  /\ order = <<>>
  /\ elapsed = 0
  /\ hw = "Idle"

NextMain ==
  \/ \E f \in Freqs : Call(f)
  \/ Step

SpecAllRegs == InitAllRegs /\ [][NextMain]_vars

\* the thread of control keeps executing a call it has started, and the
\* hardware serves a request that stays deliverable
FairSpec == Spec /\ WF_vars(Step) /\ WF_vars(DeliverIrq)

(***************************************************************************)
(* Properties                                                              *)
(***************************************************************************)
RECURSIVE Log2(_)
Log2(n) == IF n <= 1 THEN 0 ELSE 1 + Log2(n \div 2)

LastCall == calls[Len(calls)]
\* a call has been made and is over: it returned, or it panicked
CallEnded == calls # <<>> /\ pc \in {"idle", "panicked"}
IllegalEnded == CallEnded /\ LastCall \notin LegalDivisors
LegalReturned == calls # <<>> /\ pc = "idle" /\ LastCall \in LegalDivisors
CLKPRWrite(v) == [reg |-> "CLKPR", val |-> v]

RECURSIVE ExpectedWrites(_)
ExpectedWrites(cs) ==
  IF cs = <<>> THEN <<>>
  ELSE ExpectedWrites(SubSeq(cs, 1, Len(cs) - 1))
         \o <<CLKPRWrite(128), CLKPRWrite(Log2(cs[Len(cs)]))>>

\* C1: a call with an argument outside {1,2,4,...,256} returns InvalidDivisor
\* to its caller and leaves CLKPR equal to its value before the call.
C1_InvalidDivisorLeavesRegister ==
  IllegalEnded => (result = "InvalidDivisor" /\ CLKPR = pre.CLKPR)

\* C2: a call with an illegal argument issues no write and no read to the
\* prescaler register at any point of the call.
C2_IllegalCallNoAccess ==
  (pc # "idle" /\ freq \notin LegalDivisors)
    => (Len(writes) = pre.writes /\ reads = pre.reads)

\* C3: after enable_clock(d) returns for a legal d, whatever the register
\* held before, its low four bits are log2(d) and bit 7 is 0.
C3_SelectCodeApplied ==
  LegalReturned => (CLKPS(CLKPR) = Log2(LastCall) /\ CLKPCE(CLKPR) = 0)

C3_Witness ==
  /\ LegalReturned
  /\ LastCall = 256
  /\ pre.CLKPR = 255
  /\ CLKPR = 8

\* C4: after any call, successful or failed, the global interrupt-enable
\* flag equals the flag at entry of the call.
C4_InterruptFlagPreserved ==
  CallEnded => (SREG_I = pre.I)

\* C5: after any sequence of successful calls d1..dn the writes observed at
\* the register are exactly 0x80, code(d1), ..., 0x80, code(dn), two per
\* call, and the register holds code(dn).
C5_WriteTrace ==
  pc = "idle" =>
    /\ writes = ExpectedWrites(calls)
    /\ Len(writes) = 2 * Len(calls)
    /\ calls # <<>> => CLKPR = Log2(LastCall)

C5_Witness ==
  /\ pc = "idle"
  /\ calls = <<16, 1>>
  /\ writes = <<CLKPRWrite(128), CLKPRWrite(4), CLKPRWrite(128), CLKPRWrite(0)>>
  /\ CLKPR = 0

\* C6: whenever the register holds the change-enable word written by
\* enable_clock, global interrupts are disabled, and no interrupt handler
\* has run between the change-enable write and the committing write.
C6_ChangeEnableOnlyMasked ==
  /\ (pc \in Window \cup {"panicked"}) => (CLKPR = ChangeEnable /\ ~SREG_I)
  /\ handled.ran => handled.at \notin Window

C6_Witness ==
  /\ pc = "select"
  /\ pre.I
  /\ CLKPR = ChangeEnable
  /\ irqPending
  /\ ~SREG_I

\* C7: a request raised inside the two-write window of a successful call
\* entered with interrupts enabled is not delivered while the window is
\* open, is eventually delivered once the call has committed and released,
\* and its handler then sees the committed select code, not 0x80.
C7_DeferredThenDelivered ==
  /\ []((pc \in Window /\ irqPending) => ~ENABLED DeliverIrq)
  /\ []((handled.ran /\ handled.win)
          => (handled.at = "idle" /\ handled.saw = handled.want
                /\ handled.saw # ChangeEnable))
  /\ ((irqPending /\ irqTag.win) ~> (handled.ran /\ handled.win))

C7_Witness ==
  /\ handled.ran
  /\ handled.win
  /\ handled.at = "idle"
  /\ handled.saw = 3
  /\ LastCall = 8

\* C8: once a call is over, whether it succeeded or failed, bit 7 of the
\* prescaler register is 0.
C8_NoChangePendingLeft ==
  CallEnded => CLKPCE(CLKPR) = 0

\* C9: a call with an illegal argument has no side effect and leaves the
\* program able to go on with a corrected call: register, interrupt flag
\* and write trace are as at entry and control is back at the caller.
C9_FailedCallRetryable ==
  IllegalEnded =>
    /\ pc = "idle"
    /\ CLKPR = pre.CLKPR
    /\ SREG_I = pre.I
    /\ Len(writes) = pre.writes

\* C10: no execution leaves enable_clock with the interrupt guard still
\* held: every exit path that follows the disable runs the matching
\* restore.
C10_GuardReleasedOnExit ==
  CallEnded => ~guardHeld

\* the step named a has been executed before every execution of the step
\* named b
Precedes(a, b) ==
  \A j \in 1..Len(order) :
    order[j] = b => \E i \in 1..(j - 1) : order[i] = a

\* C11: every call orders its steps as validate, disable interrupts, write
\* 0x80, delay, write the select code, restore interrupts, return;
\* validation precedes the disable and the first register access, and the
\* delay lies strictly between the two writes.
C11_StepOrder ==
  /\ Precedes("validate", "disable")
  /\ Precedes("validate", "read")
  /\ Precedes("disable", "write80")
  /\ Precedes("write80", "nop")
  /\ Precedes("nop", "select")
  /\ Precedes("select", "enable")
  /\ Precedes("enable", "return")

\* C12: with the window a cycle counter started by the 0x80 write, every
\* call with a legal divisor issues the committing write before the
\* counter expires: the hardware never discards the change and every such
\* call goes Idle -> ChangePending -> Applied.
C12_WindowNeverElapses ==
  /\ hw # "Discarded"
  /\ LegalReturned => hw = "Applied"

\* C13: every value written to the prescaler register is 0x80 or one of
\* 0x00..0x08, so a register whose reserved bits 6:4 are 0 keeps them 0 at
\* every step of every call, whatever the arguments.
C13_ReservedBitsStayZero ==
  /\ [](\A i \in 1..Len(writes) : writes[i].val \in {ChangeEnable} \cup 0..8)
  /\ [][Reserved(CLKPR) = 0 => Reserved(CLKPR') = 0]_vars

C13_Witness ==
  /\ pc = "nop"
  /\ Len(calls) = 1
  /\ pre.CLKPR = 131
  /\ CLKPR = ChangeEnable
  /\ Reserved(CLKPR) = 0

\* C14: no call writes the calibration register or any address other than
\* the prescaler register: OSCCAL keeps its initial value.
C14_OnlyPrescalerWritten ==
  /\ [](\A i \in 1..Len(writes) : writes[i].reg = "CLKPR")
  /\ [][OSCCAL' = OSCCAL]_vars

C14_Witness ==
  /\ pc = "idle"
  /\ Len(writes) = 4
  /\ OSCCAL = 165

C16_DependsOnlyOnDivisor ==
  LegalReturned =>
    /\ CLKPR = Log2(LastCall)
    /\ (Len(calls) >= 2 /\ calls[Len(calls) - 1] = LastCall) => CLKPR = pre.CLKPR

C16_Witness ==
  /\ LegalReturned
  /\ calls = <<64>>
  /\ pre.CLKPR = 183
  /\ CLKPR = 6

\* C17: after every call that returns the global interrupt-enable flag is
\* set, whatever it was at entry.
C17_ReturnsWithInterruptsEnabled ==
  (pc = "idle" /\ result = "unit") => SREG_I

C17_Witness ==
  /\ pc = "idle"
  /\ result = "unit"
  /\ ~pre.I
  /\ SREG_I

\* C18: a call with an illegal divisor never returns: after the disable and
\* the 0x80 write it reaches unreachable!() and stays there, with the
\* register at 0x80, interrupts disabled and the re-enable never executed.
C18_IllegalCallPanics ==
  /\ [](pc = "panicked" =>
          /\ freq \notin LegalDivisors
          /\ order = <<"disable", "read", "write80", "nop", "validate">>
          /\ CLKPR = ChangeEnable
          /\ ~SREG_I
          /\ guardHeld
          /\ result = "none")
  /\ []((calls # <<>> /\ freq \notin LegalDivisors) => pc # "idle")
  /\ [][pc = "panicked" => pc' = "panicked" /\ CLKPR' = CLKPR /\ SREG_I' = SREG_I]_vars
  /\ ((pc = "disable" /\ freq \notin LegalDivisors) ~> (pc = "panicked"))

C18_Witness ==
  /\ pc = "panicked"
  /\ pre.I
  /\ pre.CLKPR = 3
  /\ CLKPR = ChangeEnable
  /\ ~SREG_I

TypeOK ==
  /\ CLKPR \in Byte
  /\ OSCCAL \in Byte
  /\ SREG_I \in BOOLEAN
  /\ pc \in {"idle", "disable", "read", "write80", "nop", "select", "enable", "panicked"}
  /\ freq \in Freqs \cup {0}
  /\ result \in {"none", "unit"}
  /\ hw \in {"Idle", "ChangePending", "Applied", "Discarded"}
  /\ elapsed \in 0..(NopCycles + 9)
  /\ Len(calls) <= MaxCalls
  /\ nIrqs <= MaxIrqs
====
